---- MODULE Spec2Model ----
(***************************************************************************)
(* Model of the loteria card generator: loteria_core.py (the web core:     *)
(* generate_loteria_pdf and its helpers) and generar_loteria.py (the CLI:  *)
(* load_images and main).                                                  *)
(*                                                                         *)
(* A file name is a pair <<stem, ext>>; a file is a record                 *)
(* [name, data], where data says what PIL does with the bytes:             *)
(*   "ok"         Image.open and the whole cell processing succeed,        *)
(*   "corrupt"    Image.open raises,                                       *)
(*   "degenerate" Image.open succeeds and resize_image_to_fit raises.      *)
(* A rendered page is a record holding the arguments it was rendered from  *)
(* and, per grid position <<row, col>>, what was drawn there.              *)
(***************************************************************************)
EXTENDS Integers, Sequences, FiniteSets, TLC

VARIABLES
    entry,            \* "core": generate_loteria_pdf, "cli": main, "wrap": wrap_text
    pc,               \* position inside the entry point
    uploaded_files,   \* argument of generate_loteria_pdf
    folder_exists,    \* CLI: does input_folder exist
    folder,           \* CLI: the files of input_folder, in directory order
    cantidad_tablas,  \* requested number of cards
    include_deck,     \* argument of generate_loteria_pdf
    nombre_loteria,   \* title: argument of generate_loteria_pdf, --titulo of main
    rng,              \* state of the random generator
    disk,             \* image files readable by path: path -> data
    temp_dir,         \* the directory mkdtemp made for the uploads (for the CLI's pages)
    pages_dir,        \* generate_loteria_pdf: the directory mkdtemp made for the pages
    all_images,       \* the pool: sequence of paths
    pages_temp_dir,   \* the page files on disk: page path -> rendered page
    all_page_paths,   \* all_page_paths / temp_card_paths
    page_num,         \* deck loop counter
    i,                \* card loop counter
    cards,            \* per card generated so far, the pool positions sampled
    pdf_input,        \* the list handed to img2pdf.convert
    pdf_bytes,        \* the document: sequence of rendered pages
    result,           \* "running", "pdf", "ValueError", "FileNotFoundError", "exit1"
    error_at,         \* which check raised: "", "count", "folder", "found", "valid", "pool", "convert"
    text,             \* wrap_text: argument
    max_width,        \* wrap_text: argument
    lines,            \* wrap_text: returned list of lines
    call,             \* arguments of the function a run is about (a record)
    ret               \* what that function computed (a record)

genVars == <<uploaded_files, folder_exists, folder, cantidad_tablas, include_deck,
             nombre_loteria, rng, temp_dir, pages_dir,
             disk, all_images, pages_temp_dir, all_page_paths, page_num, i, cards,
             pdf_input, pdf_bytes, result, error_at>>
wrapVars == <<text, max_width, lines>>
fnVars == <<call, ret>>
vars == <<entry, pc, genVars, wrapVars, fnVars>>
dirVars == <<temp_dir, pages_dir>>

(***************************************************************************)
(* Program constants                                                       *)
(***************************************************************************)
GRID_SIZE == 4
IMAGES_PER_CARD == GRID_SIZE * GRID_SIZE
VALID_EXTENSIONS == {".jpg", ".jpeg", ".png"}
NOMBRE_LOTERIA == "Lotería Mexicana"

\* the titles a run is given: the default and one typed by the user
Titles == {NOMBRE_LOTERIA, "Mi Loteria"}

(***************************************************************************)
(* Bounds of the model                                                     *)
(***************************************************************************)
MaxExtra == 2      \* files beyond IMAGES_PER_CARD in the small inputs
MaxTablas == 2     \* largest requested card count
MaxSeed == 2       \* initial random-generator states 0..MaxSeed
MaxLen == 6        \* longest caption text, in characters
MaxW == 6          \* largest max_width, in width units

(***************************************************************************)
(* Sequence helpers (Python list semantics)                                *)
(***************************************************************************)
Min(a, b) == IF a <= b THEN a ELSE b

\* s[a:b] for 0 <= a, 0 <= b
Slice(s, a, b) == SubSeq(s, a + 1, Min(b, Len(s)))

Range(s) == {s[k] : k \in DOMAIN s}


EmptyFn == [p \in {} |-> 0]

\* the mapping d with d[path] set to data
Put(d, path, data) ==
    [p \in (DOMAIN d) \cup {path} |-> IF p = path THEN data ELSE d[p]]

\* the mapping d without the paths of S
Remove(d, S) == [p \in (DOMAIN d) \ S |-> d[p]]

(***************************************************************************)
(* File names: Path(name).stem, Path(name).suffix, str.lower, str.upper    *)
(***************************************************************************)
\* a name is <<stem, suffix>>; a path is a name, or a directory in front of
\* one.  Path(p).stem and Path(p).suffix are those of the last component.
Stem(name) == name[Len(name) - 1]
Suffix(name) == name[Len(name)]

\* os.path.join(dir, name)
os_path_join(dir, name) == <<dir>> \o name

\* os.path.basename(path): the name without its directories
Basename(path) == <<Stem(path), Suffix(path)>>

(***************************************************************************)
(* tempfile.mkdtemp() makes a directory that did not exist and returns its *)
(* path; the name is drawn from tempfile's own generator, not from the one *)
(* of module random.  A directory that still holds a file exists.          *)
(***************************************************************************)
TempDirs == {"tmp_a", "tmp_b"}

DirsOf(d) == {p[1] : p \in {q \in DOMAIN d : Len(q) = 3}}

mkdtemp(existing) == TempDirs \ existing

Lower(ext) ==
    CASE ext = ".Png" -> ".png"
      [] ext = ".PNG" -> ".png"
      [] ext = ".JPG" -> ".jpg"
      [] ext = ".JPEG" -> ".jpeg"
      [] OTHER -> ext

Upper(ext) ==
    CASE ext = ".png" -> ".PNG"
      [] ext = ".Png" -> ".PNG"
      [] ext = ".jpg" -> ".JPG"
      [] ext = ".jpeg" -> ".JPEG"
      [] OTHER -> ext

(***************************************************************************)
(* Inputs.  A list of n files; file k is named <<k, ".png">> except for    *)
(* what the variant changes:                                               *)
(*   "dup"   the last file has the name of the first one,                  *)
(*   "txt"   file 2 has the extension ".txt",                              *)
(*   "mixed" file 2 has the extension ".Png".                              *)
(* The files at the positions of bad hold data kind, the others "ok".      *)
(***************************************************************************)
Variants == {"plain", "dup", "txt", "mixed"}

PoolSizes ==
    {0} \cup ((IMAGES_PER_CARD - 1) .. (IMAGES_PER_CARD + MaxExtra))
        \cup {2 * IMAGES_PER_CARD, 2 * IMAGES_PER_CARD + 1}

MkFiles(n, v, bad, kind) ==
    [k \in 1..n |->
        [name |-> << IF v = "dup" /\ k = n /\ n > 1 THEN 1 ELSE k,
                     IF v = "txt" /\ k = 2 THEN ".txt"
                     ELSE IF v = "mixed" /\ k = 2 THEN ".Png" ELSE ".png" >>,
         data |-> IF k \in bad THEN kind ELSE "ok"]]

BadChoices(n) ==
    {<<{}, "ok">>, <<1..n, "corrupt">>}
        \cup {<<{k}, d>> : k \in {1, 6, IMAGES_PER_CARD, n} \cap (1..n),
                           d \in {"corrupt", "degenerate"}}

FileLists(vs) ==
    UNION { UNION { {MkFiles(n, v, b[1], b[2]) : v \in vs} : b \in BadChoices(n) }
            : n \in PoolSizes }

UploadLists == FileLists(Variants)

Reverse(s) == [k \in 1..Len(s) |-> s[Len(s) + 1 - k]]

\* a folder holds each name once; its directory order is not sorted
FolderLists == {Reverse(fs) : fs \in FileLists(Variants \ {"dup"})}

(***************************************************************************)
(* load_images_from_uploads: keep the files with a valid extension, write  *)
(* each to temp_dir/name (a later file of the same name overwrites).  dir   *)
(* is the directory mkdtemp returned at line 483, d the files on disk.     *)
(***************************************************************************)
RECURSIVE LoadFrom(_, _, _, _, _)
LoadFrom(files, dir, k, d, image_paths) ==
    IF k > Len(files) THEN [disk |-> d, image_paths |-> image_paths]
    ELSE LET f == files[k]
             temp_path == os_path_join(dir, f.name)
         IN  IF Lower(Suffix(f.name)) \in VALID_EXTENSIONS
             THEN LoadFrom(files, dir, k + 1, Put(d, temp_path, f.data),
                           Append(image_paths, temp_path))
             ELSE LoadFrom(files, dir, k + 1, d, image_paths)

load_images_from_uploads(files, dir, d) == LoadFrom(files, dir, 1, d, <<>>)

(***************************************************************************)
(* The random generator of module random (the Mersenne Twister), which the  *)
(* repository never seeds: its state is the seed it was last given and the *)
(* number of 32-bit outputs drawn since.  A run starts from the state of a *)
(* seed in 0..MaxSeed; the outputs are tabulated.                          *)
(* random.sample(population, k) for len(population) <= 85 and k = 16:      *)
(* copy the population, and k times draw j below the number of entries     *)
(* left, take pool[j] and move the last entry left into position j.        *)
(***************************************************************************)
\* the high 6 bits of the first 360 32-bit outputs of the generator after
\* random.seed(0), .. random.seed(3)
Stream0 ==
    << 54, 24, 48, 56, 26, 2, 16, 61, 32, 31, 25, 58, 50, 53, 19, 61, 30, 22, 37, 57, 58, 13, 32, 8,
       18, 8, 48, 6, 39, 51, 16, 63, 58, 34, 62, 45, 51, 38, 57, 9, 19, 6, 46, 4, 57, 54, 43, 21,
       30, 35, 6, 22, 27, 20, 39, 40, 58, 13, 61, 35, 30, 28, 55, 33, 16, 3, 51, 58, 35, 58, 0, 5,
       46, 53, 25, 45, 52, 50, 42, 40, 0, 39, 31, 52, 55, 21, 15, 46, 20, 45, 55, 4, 12, 58, 36, 14,
       15, 51, 61, 9, 51, 34, 28, 5, 5, 63, 20, 56, 32, 63, 59, 31, 6, 19, 35, 18, 45, 7, 35, 21,
       52, 59, 34, 13, 61, 51, 38, 35, 37, 18, 28, 5, 38, 51, 24, 20, 36, 15, 18, 11, 12, 52, 11, 2,
       39, 62, 42, 16, 30, 4, 5, 43, 48, 8, 56, 9, 59, 2, 53, 5, 57, 44, 59, 53, 34, 43, 25, 53,
       45, 33, 17, 33, 51, 15, 54, 13, 57, 43, 37, 52, 60, 26, 37, 17, 28, 31, 42, 41, 63, 44, 58, 62,
       50, 22, 5, 20, 39, 7, 31, 37, 40, 21, 54, 12, 15, 1, 46, 17, 7, 45, 14, 23, 50, 10, 21, 27,
       52, 3, 6, 50, 9, 54, 44, 14, 2, 52, 36, 40, 58, 59, 34, 38, 43, 4, 1, 7, 40, 12, 38, 53,
       36, 7, 25, 5, 23, 53, 62, 7, 2, 38, 1, 12, 61, 62, 11, 45, 7, 30, 13, 46, 51, 3, 59, 43,
       1, 34, 27, 39, 6, 53, 16, 4, 14, 4, 41, 19, 22, 27, 11, 3, 32, 29, 2, 38, 6, 44, 63, 25,
       12, 16, 22, 57, 46, 30, 53, 57, 58, 36, 10, 44, 43, 13, 61, 49, 3, 50, 43, 10, 54, 10, 21, 33,
       16, 7, 38, 58, 28, 42, 11, 0, 30, 43, 26, 57, 36, 55, 32, 58, 19, 41, 22, 24, 53, 42, 16, 9,
       35, 44, 0, 29, 47, 5, 21, 47, 2, 34, 17, 8, 15, 48, 61, 30, 22, 39, 18, 43, 22, 37, 60, 57 >>

Stream1 ==
    << 8, 36, 54, 51, 48, 4, 16, 7, 31, 48, 28, 30, 41, 24, 50, 13, 6, 31, 1, 57, 53, 24, 27, 38,
       48, 49, 0, 44, 28, 17, 46, 51, 14, 37, 60, 6, 57, 20, 1, 1, 1, 41, 34, 0, 60, 56, 24, 43,
       13, 62, 27, 46, 1, 33, 14, 48, 28, 60, 31, 35, 14, 22, 14, 43, 14, 48, 29, 60, 18, 59, 1, 26,
       53, 58, 35, 59, 41, 6, 11, 40, 63, 46, 55, 18, 7, 47, 21, 57, 46, 62, 45, 32, 59, 61, 27, 32,
       53, 58, 42, 12, 19, 18, 37, 62, 56, 31, 54, 60, 32, 25, 37, 54, 2, 30, 15, 47, 51, 25, 26, 42,
       11, 23, 35, 56, 44, 49, 43, 47, 23, 5, 28, 42, 32, 6, 49, 10, 33, 53, 25, 23, 31, 46, 1, 30,
       2, 19, 45, 54, 62, 39, 37, 37, 25, 41, 10, 10, 32, 14, 62, 0, 49, 12, 34, 58, 55, 35, 14, 25,
       32, 22, 60, 54, 36, 22, 29, 58, 17, 42, 35, 38, 61, 46, 0, 24, 50, 54, 52, 61, 56, 60, 47, 32,
       51, 8, 33, 49, 35, 13, 27, 60, 3, 30, 55, 23, 36, 35, 12, 60, 32, 26, 31, 52, 22, 26, 22, 0,
       34, 34, 39, 50, 39, 21, 29, 38, 1, 51, 14, 40, 11, 35, 37, 11, 55, 5, 51, 35, 51, 54, 52, 59,
       16, 2, 53, 60, 43, 4, 5, 55, 1, 28, 0, 48, 48, 17, 15, 17, 7, 51, 39, 11, 22, 18, 4, 10,
       10, 16, 33, 60, 10, 42, 17, 41, 45, 18, 29, 44, 20, 31, 30, 7, 1, 19, 24, 21, 26, 50, 12, 16,
       6, 16, 57, 46, 32, 62, 13, 61, 38, 27, 52, 62, 1, 14, 1, 25, 9, 2, 46, 61, 10, 28, 45, 32,
       43, 27, 34, 53, 14, 62, 62, 40, 51, 44, 33, 28, 14, 33, 41, 1, 25, 43, 36, 51, 20, 42, 40, 27,
       3, 47, 19, 8, 61, 13, 56, 3, 19, 4, 54, 4, 19, 58, 60, 19, 47, 10, 26, 36, 16, 8, 0, 35 >>

Stream2 ==
    << 61, 55, 60, 54, 3, 5, 5, 23, 53, 10, 47, 51, 42, 54, 19, 16, 38, 13, 38, 2, 37, 43, 10, 63,
       27, 40, 25, 51, 46, 55, 63, 32, 60, 23, 34, 59, 28, 32, 17, 57, 2, 55, 1, 23, 29, 59, 20, 58,
       24, 27, 57, 56, 33, 10, 35, 11, 15, 14, 1, 11, 20, 11, 8, 32, 32, 23, 63, 32, 43, 35, 11, 63,
       57, 28, 50, 26, 47, 33, 58, 58, 48, 23, 50, 37, 22, 23, 62, 54, 61, 28, 10, 61, 48, 25, 45, 47,
       29, 41, 33, 15, 31, 17, 59, 31, 32, 32, 53, 50, 22, 42, 56, 29, 57, 57, 29, 22, 36, 46, 58, 35,
       46, 29, 31, 42, 14, 60, 20, 52, 44, 53, 10, 56, 58, 39, 17, 49, 58, 30, 19, 19, 61, 51, 45, 53,
       32, 35, 33, 32, 41, 39, 37, 26, 19, 46, 13, 31, 32, 23, 59, 43, 39, 56, 4, 50, 52, 21, 46, 0,
       58, 52, 12, 63, 47, 6, 3, 36, 41, 3, 17, 37, 14, 43, 56, 58, 6, 48, 33, 8, 54, 17, 15, 52,
       13, 60, 56, 3, 27, 57, 45, 48, 2, 3, 23, 23, 11, 15, 43, 1, 5, 7, 61, 4, 1, 2, 46, 58,
       1, 23, 16, 8, 52, 59, 10, 47, 11, 33, 44, 0, 24, 37, 2, 50, 63, 15, 9, 62, 2, 0, 22, 60,
       39, 40, 47, 47, 7, 18, 21, 31, 1, 19, 28, 35, 49, 38, 47, 2, 57, 16, 48, 25, 55, 39, 45, 9,
       30, 61, 14, 5, 42, 43, 20, 53, 6, 1, 28, 50, 55, 60, 8, 33, 37, 49, 25, 31, 32, 20, 9, 55,
       61, 21, 16, 16, 38, 62, 26, 41, 1, 44, 35, 61, 8, 42, 3, 16, 2, 8, 10, 10, 6, 29, 40, 14,
       32, 58, 62, 45, 59, 2, 63, 15, 14, 45, 28, 4, 16, 5, 37, 14, 39, 50, 51, 39, 45, 23, 16, 43,
       27, 17, 33, 48, 0, 9, 2, 24, 26, 10, 7, 32, 46, 5, 15, 6, 6, 1, 11, 48, 14, 6, 13, 1 >>

Stream3 ==
    << 15, 37, 34, 8, 23, 58, 38, 30, 40, 37, 4, 38, 0, 58, 53, 30, 16, 35, 14, 12, 63, 45, 30, 34,
       53, 35, 30, 25, 40, 55, 9, 14, 40, 9, 55, 59, 33, 24, 47, 0, 42, 49, 4, 10, 48, 61, 37, 2,
       19, 49, 1, 52, 55, 17, 30, 38, 46, 58, 56, 24, 45, 50, 58, 27, 25, 46, 51, 36, 28, 61, 59, 8,
       56, 23, 6, 2, 8, 31, 13, 16, 61, 43, 27, 49, 40, 54, 19, 26, 32, 53, 24, 36, 22, 34, 37, 26,
       37, 14, 57, 21, 43, 58, 59, 1, 54, 17, 63, 38, 42, 44, 10, 44, 55, 20, 61, 34, 57, 36, 36, 6,
       45, 41, 13, 40, 53, 63, 36, 17, 18, 7, 4, 30, 54, 40, 63, 30, 5, 22, 51, 4, 26, 57, 9, 1,
       18, 27, 49, 26, 55, 7, 2, 38, 39, 48, 2, 24, 45, 37, 21, 35, 56, 59, 62, 17, 32, 15, 63, 2,
       19, 0, 4, 6, 38, 34, 2, 60, 12, 62, 26, 18, 39, 16, 9, 44, 2, 62, 55, 21, 20, 23, 61, 8,
       57, 55, 24, 24, 29, 55, 33, 24, 41, 55, 38, 43, 35, 6, 39, 62, 60, 51, 32, 17, 27, 40, 46, 45,
       15, 59, 19, 27, 62, 16, 33, 19, 35, 21, 0, 50, 26, 63, 37, 20, 1, 24, 39, 37, 40, 8, 3, 40,
       40, 21, 29, 22, 43, 58, 22, 38, 45, 17, 47, 31, 1, 37, 3, 61, 43, 1, 61, 23, 16, 40, 29, 19,
       37, 38, 20, 11, 23, 11, 20, 48, 23, 54, 38, 16, 19, 50, 24, 6, 49, 52, 1, 62, 36, 43, 47, 8,
       19, 32, 14, 41, 51, 17, 15, 20, 11, 43, 27, 41, 44, 6, 6, 38, 20, 60, 21, 43, 53, 14, 28, 51,
       54, 61, 10, 5, 21, 47, 41, 13, 56, 36, 28, 17, 14, 50, 7, 2, 33, 61, 12, 20, 51, 53, 53, 36,
       11, 55, 17, 21, 51, 52, 41, 5, 51, 39, 22, 37, 8, 26, 18, 33, 50, 54, 17, 29, 22, 40, 26, 18 >>

Streams == <<Stream0, Stream1, Stream2, Stream3>>

\* the generator just after random.seed(seed)
Seeded(seed) == [seed |-> seed, pos |-> 0]

SeededStates == {Seeded(seed) : seed \in 0 .. MaxSeed}

\* int.bit_length
BitLength(m) == CHOOSE k \in 0..6 : m < 2^k /\ (k = 0 \/ m >= 2^(k - 1))

\* getrandbits(k) for k <= 6: the high k bits of the next 32-bit output
GetRandBits(s, k) ==
    LET out == Streams[(s.seed % Len(Streams)) + 1]
    IN  out[(s.pos % Len(out)) + 1] \div 2^(6 - k)

\* the generator after one more output
RngNext(s) == [s EXCEPT !.pos = @ + 1]

\* _randbelow(m), m < 64: getrandbits(m.bit_length()) is drawn again until it
\* is below m; the value and the generator after it
RECURSIVE Randbelow(_, _)
Randbelow(s, m) ==
    LET r == GetRandBits(s, BitLength(m))
    IN  IF r >= m THEN Randbelow(RngNext(s), m)
        ELSE [value |-> r, rng |-> RngNext(s)]

\* mutation of MoveLast: the drawn entry stays in the pool
MoveLast_Keep(pool, j, last) == pool

\* pool[j] = pool[n - i - 1]: the last entry left takes the place of the drawn one
MoveLast(pool, j, last) == [pool EXCEPT ![j + 1] = pool[last]]

RECURSIVE SampleLoop(_, _, _, _, _, _)
SampleLoop(pool, n, k, s, selected, idx) ==
    IF idx >= k THEN [selected |-> selected, rng |-> s]
    ELSE LET r == Randbelow(s, n - idx)
             j == r.value
         IN  SampleLoop(MoveLast(pool, j, n - idx), n, k, r.rng,
                        Append(selected, pool[j + 1]), idx + 1)

random_sample(population, k, s) ==
    SampleLoop(population, Len(population), k, s, <<>>, 0)

\* the pool positions 1..n, which random.sample draws from
Positions(images) == [k \in 1..Len(images) |-> k]


(***************************************************************************)
(* Page geometry, in pixels.  Both page kinds derive the cell size from    *)
(* the space left between the margins; a card page also gives up the title *)
(* band and the folio band.                                                *)
(***************************************************************************)
PAGE_WIDTH == 2550
PAGE_HEIGHT == 3300
TITLE_HEIGHT == 200
FOLIO_HEIGHT == 80
MARGIN_TOP == 100
MARGIN_BOTTOM == 100
MARGIN_LEFT == 150
MARGIN_RIGHT == 150
GAP_BETWEEN_IMAGES == 15
LABEL_PADDING_BOTTOM == 35
CARD_BORDER_WIDTH == 5

available_width == PAGE_WIDTH - MARGIN_LEFT - MARGIN_RIGHT

card_available_height ==
    PAGE_HEIGHT - TITLE_HEIGHT - MARGIN_TOP - MARGIN_BOTTOM - FOLIO_HEIGHT

\* mutation of deck_available_height: the deck page gives up the bands too
deck_available_height_Banded ==
    PAGE_HEIGHT - TITLE_HEIGHT - MARGIN_TOP - MARGIN_BOTTOM - FOLIO_HEIGHT

deck_available_height == PAGE_HEIGHT - MARGIN_TOP - MARGIN_BOTTOM

\* mutation of CellSize: the gaps between the cells are not taken off
CellSize_NoGaps(available) == available \div GRID_SIZE

\* (available - (GRID_SIZE - 1) * GAP_BETWEEN_IMAGES) // GRID_SIZE
CellSize(available) ==
    (available - (GRID_SIZE - 1) * GAP_BETWEEN_IMAGES) \div GRID_SIZE

card_cell_width == CellSize(available_width)
card_cell_height == CellSize(card_available_height)
deck_cell_width == CellSize(available_width)
deck_cell_height == CellSize(deck_available_height)

\* the decimal digits of n >= 0, most significant first
RECURSIVE Digits(_)
Digits(n) == IF n < 10 THEN <<n>> ELSE Digits(n \div 10) \o <<n % 10>>

\* mutation of Format02d: no padding
Format02d_Plain(n) == Digits(n)

\* f"{n:02d}" for n >= 0: the digits, with a leading zero below 10
Format02d(n) == IF Len(Digits(n)) < 2 THEN <<0>> \o Digits(n) ELSE Digits(n)

\* f"Tabla #{folio_number:02d}": the prefix and the digits
folio_text(folio_number) == [prefix |-> "Tabla #", digits |-> Format02d(folio_number)]

(***************************************************************************)
(* Rendering.  Image.open(path) reads the file at path; a missing file     *)
(* raises like a corrupt one.                                              *)
(***************************************************************************)
Data(d, path) == IF path \in DOMAIN d THEN d[path] ELSE "corrupt"

Grid == (0 .. GRID_SIZE - 1) \X (0 .. GRID_SIZE - 1)

BlankCell == [border |-> FALSE, image |-> <<>>, caption |-> <<>>]

\* create_card_image, one grid position: everything between try and except
CardCell(d, path) ==
    IF Data(d, path) = "ok"
    THEN [border |-> FALSE, image |-> <<path>>, caption |-> <<Stem(path)>>]
    ELSE BlankCell

\* create_card_image: image_index runs 0..15 over the rows and, inside a
\* row, over the columns, and advances whether or not the cell failed
CardImageIndex(row, col) == row * GRID_SIZE + col

\* mutation of create_card_image: the images that fail are dropped first, so
\* the later ones move up
create_card_image_Compact(d, image_paths, title, folio_number) ==
    LET Opens(path) == Data(d, path) = "ok"
        good == SelectSeq(image_paths, Opens)
    IN  [kind |-> "card", title |-> title, number |-> folio_number,
         folio_text |-> folio_text(folio_number),
         cell_width |-> card_cell_width, cell_height |-> card_cell_height,
         images |-> image_paths,
         cells |-> [rc \in Grid |->
                      IF CardImageIndex(rc[1], rc[2]) + 1 <= Len(good)
                      THEN CardCell(d, good[CardImageIndex(rc[1], rc[2]) + 1])
                      ELSE BlankCell]]

create_card_image(d, image_paths, title, folio_number) ==
    [kind |-> "card", title |-> title, number |-> folio_number,
     folio_text |-> folio_text(folio_number),
     cell_width |-> card_cell_width, cell_height |-> card_cell_height,
     images |-> image_paths,
     cells |-> [rc \in Grid |->
                  CardCell(d, image_paths[CardImageIndex(rc[1], rc[2]) + 1])]]

\* generar_loteria.py's own create_card_image (single-line caption)
cli_create_card_image(d, image_paths, title, folio_number) ==
    [kind |-> "card", title |-> title, number |-> folio_number,
     folio_text |-> folio_text(folio_number),
     cell_width |-> card_cell_width, cell_height |-> card_cell_height,
     images |-> image_paths,
     cells |-> [rc \in Grid |->
                  LET path == image_paths[(rc[1] * GRID_SIZE + rc[2]) + 1]
                  IN  IF Data(d, path) = "ok"
                      THEN [border |-> FALSE, image |-> <<path>>,
                            caption |-> <<Stem(path)>>]
                      ELSE BlankCell]]

\* create_deck_page, one supplied image: the border is drawn after
\* Image.open and before resize_image_to_fit
DeckCell(d, path) ==
    CASE Data(d, path) = "ok" ->
            [border |-> TRUE, image |-> <<path>>, caption |-> <<Stem(path)>>]
      [] Data(d, path) = "degenerate" ->
            [border |-> TRUE, image |-> <<>>, caption |-> <<>>]
      [] OTHER -> BlankCell

\* mutation of DeckIndexAt: the images fill the grid column by column
DeckIndexAt_ColumnMajor(image_paths, row, col) ==
    {idx \in 0 .. (Min(Len(image_paths), 16) - 1) :
        idx % GRID_SIZE = row /\ idx \div GRID_SIZE = col}

\* create_deck_page: image idx (idx < 16) goes to row idx // 4, column idx % 4
DeckIndexAt(image_paths, row, col) ==
    {idx \in 0 .. (Min(Len(image_paths), 16) - 1) :
        idx \div GRID_SIZE = row /\ idx % GRID_SIZE = col}

create_deck_page(d, image_paths, page_number) ==
    [kind |-> "deck", title |-> "", number |-> page_number,
     folio_text |-> <<>>,
     cell_width |-> deck_cell_width, cell_height |-> deck_cell_height,
     images |-> image_paths,
     cells |-> [rc \in Grid |->
                  LET at == DeckIndexAt(image_paths, rc[1], rc[2])
                  IN  IF at = {} THEN BlankCell
                      ELSE DeckCell(d, image_paths[(CHOOSE idx \in at : TRUE) + 1])]]

\* does the page show at least one image
Usable(page) == \E rc \in Grid : page.cells[rc].image # <<>>


(***************************************************************************)
(* wrap_text.  A text is a sequence of characters; the font gives every    *)
(* character an advance, and the measured width of a text (the textbbox    *)
(* x-extent) is the sum of the advances of its characters.                 *)
(***************************************************************************)
Alphabet == {"a", "W", " "}

CharWidth(c) == IF c = "W" THEN 2 ELSE 1

RECURSIVE Width(_)
Width(t) == IF t = <<>> THEN 0 ELSE CharWidth(Head(t)) + Width(Tail(t))

\* str.split(): the maximal runs of non-whitespace characters, in order
RECURSIVE SplitFrom(_, _, _, _)
SplitFrom(t, k, words, word) ==
    IF k > Len(t) THEN (IF word = <<>> THEN words ELSE Append(words, word))
    ELSE IF t[k] = " "
         THEN SplitFrom(t, k + 1, IF word = <<>> THEN words ELSE Append(words, word), <<>>)
         ELSE SplitFrom(t, k + 1, words, Append(word, t[k]))

Split(t) == SplitFrom(t, 1, <<>>, <<>>)

\* ' '.join(words)
RECURSIVE Join(_)
Join(words) ==
    IF words = <<>> THEN <<>>
    ELSE IF Len(words) = 1 THEN words[1]
    ELSE words[1] \o <<" ">> \o Join(Tail(words))

\* mutation of WrapStep: a word too long for an empty line is dropped
WrapStep_DropsLong(w, word, maxw) ==
    LET test_line == Join(Append(w.current_line, word))
    IN  IF Width(test_line) <= maxw
        THEN [lines |-> w.lines, current_line |-> Append(w.current_line, word)]
        ELSE IF w.current_line # <<>>
             THEN [lines |-> Append(w.lines, Join(w.current_line)),
                   current_line |-> <<word>>]
             ELSE w

\* mutation of WrapStep: the word is measured instead of the tentative line
WrapStep_MeasuresWord(w, word, maxw) ==
    IF Width(word) <= maxw
    THEN [lines |-> w.lines, current_line |-> Append(w.current_line, word)]
    ELSE IF w.current_line # <<>>
         THEN [lines |-> Append(w.lines, Join(w.current_line)),
               current_line |-> <<word>>]
         ELSE [lines |-> Append(w.lines, word), current_line |-> w.current_line]

\* lines 134-148: the body of the loop over the words;
\* w is [lines, current_line]
WrapStep(w, word, maxw) ==
    LET test_line == Join(Append(w.current_line, word))
    IN  IF Width(test_line) <= maxw
        THEN [lines |-> w.lines, current_line |-> Append(w.current_line, word)]
        ELSE IF w.current_line # <<>>
             THEN [lines |-> Append(w.lines, Join(w.current_line)),
                   current_line |-> <<word>>]
             ELSE [lines |-> Append(w.lines, word), current_line |-> w.current_line]

RECURSIVE WrapLoop(_, _, _, _)
WrapLoop(words, k, w, maxw) ==
    IF k > Len(words) THEN w
    ELSE WrapLoop(words, k + 1, WrapStep(w, words[k], maxw), maxw)

wrap_text(t, maxw) ==
    IF Width(t) <= maxw THEN <<t>>
    ELSE LET w == WrapLoop(Split(t), 1, [lines |-> <<>>, current_line |-> <<>>], maxw)
         IN  IF w.current_line # <<>>
             THEN Append(w.lines, Join(w.current_line))
             ELSE w.lines

(***************************************************************************)
(* generar_loteria.py: load_images                                         *)
(***************************************************************************)
\* the patterns globbed: *{ext} and *{ext.upper()} for each valid extension
GlobExtensions == VALID_EXTENSIONS \cup {Upper(e) : e \in VALID_EXTENSIONS}

\* image_paths.sort()
RECURSIVE SortNames(_)
SortNames(S) ==
    IF S = {} THEN <<>>
    ELSE LET m == CHOOSE x \in S : \A y \in S : Stem(x) <= Stem(y)
         IN  <<m>> \o SortNames(S \ {m})

FolderDisk(files) ==
    [p \in {files[k].name : k \in DOMAIN files} |->
        (CHOOSE f \in Range(files) : f.name = p).data]

\* mutation of TooFew: the bound is one too low
TooFew_OffByOne(images) == Len(images) < IMAGES_PER_CARD - 1

\* the size check made twice by load_images and once by generate_loteria_pdf
TooFew(images) == Len(images) < IMAGES_PER_CARD

load_images(exists, files) ==
    LET d == FolderDisk(files)
        image_paths == SortNames({n \in DOMAIN d : Suffix(n) \in GlobExtensions})
        Verifies(path) == d[path] # "corrupt"
        valid_images == SelectSeq(image_paths, Verifies)
    IN  IF ~exists THEN [error |-> "folder", images |-> <<>>]
        ELSE IF TooFew(image_paths) THEN [error |-> "found", images |-> <<>>]
        ELSE IF TooFew(valid_images) THEN [error |-> "valid", images |-> <<>>]
        ELSE [error |-> "", images |-> valid_images]

(***************************************************************************)
(* Initial states: the arguments of one run of one entry point             *)
(***************************************************************************)
Counts == (-1) .. MaxTablas

InitIdle ==
    /\ temp_dir = ""
    /\ pages_dir = ""
    /\ all_images = <<>>
    /\ pages_temp_dir = EmptyFn
    /\ all_page_paths = <<>>
    /\ page_num = 0
    /\ i = 0
    /\ cards = <<>>
    /\ pdf_input = <<>>
    /\ pdf_bytes = <<>>
    /\ result = "running"
    /\ error_at = ""

InitNoWrap ==
    /\ text = <<>>
    /\ max_width = 0
    /\ lines = <<>>

InitNoCall ==
    /\ call = <<>>
    /\ ret = <<>>

InitCore ==
    /\ entry = "core"
    /\ pc = "start"
    /\ uploaded_files \in UploadLists
    /\ folder_exists = FALSE
    /\ folder = <<>>
    /\ cantidad_tablas \in Counts
    /\ include_deck \in BOOLEAN
    /\ nombre_loteria \in Titles
    /\ rng \in SeededStates
    /\ disk = EmptyFn
    /\ InitIdle
    /\ InitNoWrap
    /\ InitNoCall

InitCli ==
    /\ entry = "cli"
    /\ pc = "start"
    /\ uploaded_files = <<>>
    /\ folder_exists \in BOOLEAN
    /\ folder \in (IF folder_exists THEN FolderLists ELSE {<<>>})
    /\ cantidad_tablas \in Counts
    /\ include_deck = FALSE
    /\ nombre_loteria \in Titles
    /\ rng \in SeededStates
    /\ disk = FolderDisk(folder)
    /\ InitIdle
    /\ InitNoWrap
    /\ InitNoCall

Init == InitCore \/ InitCli

inputVars == <<entry, uploaded_files, folder_exists, folder, cantidad_tablas, include_deck,
               nombre_loteria>>

(***************************************************************************)
(* generate_loteria_pdf                                                    *)
(***************************************************************************)
\* line 517
LoadUploads ==
    /\ entry = "core" /\ pc = "start"
    /\ temp_dir' \in mkdtemp(DirsOf(disk) \cup DirsOf(pages_temp_dir))
    /\ LET r == load_images_from_uploads(uploaded_files, temp_dir', disk)
       IN  /\ disk' = r.disk
           /\ all_images' = r.image_paths
    /\ pc' = "validate"
    /\ UNCHANGED <<inputVars, pages_dir, rng, pages_temp_dir, all_page_paths, page_num, i, cards,
                   pdf_input, pdf_bytes, result, error_at, wrapVars, fnVars>>

\* lines 521-528
ValidatePool ==
    /\ entry = "core" /\ pc = "validate"
    /\ IF TooFew(all_images)
       THEN /\ result' = "ValueError"
            /\ error_at' = "pool"
            /\ pc' = "finally"
            /\ UNCHANGED <<pages_dir, page_num, i>>
       ELSE /\ pages_dir' \in mkdtemp({temp_dir} \cup DirsOf(disk)
                                          \cup DirsOf(pages_temp_dir))
            /\ pc' = IF include_deck THEN "deck" ELSE "cards"
            /\ page_num' = 0
            /\ i' = 1
            /\ UNCHANGED <<result, error_at>>
    /\ UNCHANGED <<inputVars, temp_dir, rng, disk, all_images, pages_temp_dir,
                   all_page_paths, cards, pdf_input, pdf_bytes, wrapVars, fnVars>>

\* mutations of num_deck_pages: rounding down, and one page too many
num_deck_pages_Floor(images) == Len(images) \div 16

num_deck_pages_Extra(images) == (Len(images) + 16) \div 16

num_deck_pages(images) == (Len(images) + 15) \div 16

\* page_images of deck page page_num (0-based)
DeckPageImages(images, n) ==
    LET start_idx == n * 16
        end_idx == Min(start_idx + 16, Len(images))
    IN  Slice(images, start_idx, end_idx)

\* selected_images: the paths at the sampled positions
Selected(images, positions) == [k \in DOMAIN positions |-> images[positions[k]]]

\* mutation of DeckPage: the new page is put in front of the earlier ones
DeckPage_Prepends ==
    /\ entry = "core" /\ pc = "deck"
    /\ page_num < num_deck_pages(all_images)
    /\ LET page_images == DeckPageImages(all_images, page_num)
           deck_page == create_deck_page(disk, page_images, page_num + 1)
           deck_page_path == os_path_join(pages_dir, <<"deck_page", page_num + 1>>)
       IN  /\ pages_temp_dir' = Put(pages_temp_dir, deck_page_path, deck_page)
           /\ all_page_paths' = <<deck_page_path>> \o all_page_paths
    /\ page_num' = page_num + 1
    /\ pc' = IF page_num + 1 < num_deck_pages(all_images) THEN "deck" ELSE "cards"
    /\ UNCHANGED <<inputVars, dirVars, rng, disk, all_images, i, cards, pdf_input, pdf_bytes,
                   result, error_at, wrapVars, fnVars>>

\* mutation of DeckPage: the images of a deck page are put in the random
\* order random.sample(page_images, len(page_images)) gives
DeckPage_Shuffled ==
    /\ entry = "core" /\ pc = "deck"
    /\ page_num < num_deck_pages(all_images)
    /\ LET page_images == DeckPageImages(all_images, page_num)
           s == random_sample(Positions(page_images), Len(page_images), rng)
           deck_page == create_deck_page(disk, Selected(page_images, s.selected),
                                         page_num + 1)
           deck_page_path == os_path_join(pages_dir, <<"deck_page", page_num + 1>>)
       IN  /\ rng' = s.rng
           /\ pages_temp_dir' = Put(pages_temp_dir, deck_page_path, deck_page)
           /\ all_page_paths' = Append(all_page_paths, deck_page_path)
    /\ page_num' = page_num + 1
    /\ pc' = IF page_num + 1 < num_deck_pages(all_images) THEN "deck" ELSE "cards"
    /\ UNCHANGED <<inputVars, dirVars, disk, all_images, i, cards, pdf_input, pdf_bytes,
                   result, error_at, wrapVars, fnVars>>

\* lines 534-545, one iteration
DeckPage ==
    /\ entry = "core" /\ pc = "deck"
    /\ page_num < num_deck_pages(all_images)
    /\ LET page_images == DeckPageImages(all_images, page_num)
           deck_page == create_deck_page(disk, page_images, page_num + 1)
           deck_page_path == os_path_join(pages_dir, <<"deck_page", page_num + 1>>)
       IN  /\ pages_temp_dir' = Put(pages_temp_dir, deck_page_path, deck_page)
           /\ all_page_paths' = Append(all_page_paths, deck_page_path)
    /\ page_num' = page_num + 1
    /\ pc' = IF page_num + 1 < num_deck_pages(all_images) THEN "deck" ELSE "cards"
    /\ UNCHANGED <<inputVars, dirVars, rng, disk, all_images, i, cards, pdf_input, pdf_bytes,
                   result, error_at, wrapVars, fnVars>>

\* lines 548-558, one iteration
CardPage ==
    /\ entry = "core" /\ pc = "cards"
    /\ i <= cantidad_tablas
    /\ LET s == random_sample(Positions(all_images), IMAGES_PER_CARD, rng)
           selected_images == Selected(all_images, s.selected)
           card_image == create_card_image(disk, selected_images, nombre_loteria, i)
           temp_card_path == os_path_join(pages_dir, <<"tabla", i>>)
       IN  /\ rng' = s.rng
           /\ cards' = Append(cards, s.selected)
           /\ pages_temp_dir' = Put(pages_temp_dir, temp_card_path, card_image)
           /\ all_page_paths' = Append(all_page_paths, temp_card_path)
    /\ i' = i + 1
    /\ UNCHANGED <<inputVars, dirVars, pc, disk, all_images, page_num, pdf_input, pdf_bytes,
                   result, error_at, wrapVars, fnVars>>

\* mutation of Document: the page files read in reverse list order
Document_Reversed(dir, paths) == [k \in 1..Len(paths) |-> dir[paths[Len(paths) + 1 - k]]]

\* the document img2pdf.convert builds: the page files read in list order
Document(dir, paths) == [k \in 1..Len(paths) |-> dir[paths[k]]]

\* line 561, a non-empty page list
Convert ==
    /\ entry = "core" /\ pc = "cards"
    /\ i > cantidad_tablas
    /\ all_page_paths # <<>>
    /\ pdf_input' = all_page_paths
    /\ pdf_bytes' = Document(pages_temp_dir, all_page_paths)
    /\ pc' = "cleanup"
    /\ UNCHANGED <<inputVars, dirVars, rng, disk, all_images, pages_temp_dir, all_page_paths,
                   page_num, i, cards, result, error_at, wrapVars, fnVars>>

\* line 561, an empty page list: img2pdf.convert raises
\* ValueError("Unable to process empty list"), which leaves through finally
ConvertEmpty ==
    /\ entry = "core" /\ pc = "cards"
    /\ i > cantidad_tablas
    /\ all_page_paths = <<>>
    /\ pdf_input' = all_page_paths
    /\ result' = "ValueError"
    /\ error_at' = "convert"
    /\ pc' = "finally"
    /\ UNCHANGED <<inputVars, dirVars, rng, disk, all_images, pages_temp_dir, all_page_paths,
                   page_num, i, cards, pdf_bytes, wrapVars, fnVars>>

\* lines 563-574
CleanupPages ==
    /\ entry = "core" /\ pc = "cleanup"
    /\ pages_temp_dir' = Remove(pages_temp_dir, Range(all_page_paths))
    /\ result' = "pdf"
    /\ pc' = "finally"
    /\ UNCHANGED <<inputVars, dirVars, rng, disk, all_images, all_page_paths, page_num, i, cards,
                   pdf_input, pdf_bytes, error_at, wrapVars, fnVars>>

\* mutation of Finally: the uploads are removed only after a successful run
Finally_OnSuccess ==
    /\ entry = "core" /\ pc = "finally"
    /\ disk' = IF result = "pdf" THEN Remove(disk, Range(all_images)) ELSE disk
    /\ pc' = "done"
    /\ UNCHANGED <<inputVars, dirVars, rng, all_images, pages_temp_dir, all_page_paths, page_num,
                   i, cards, pdf_input, pdf_bytes, result, error_at, wrapVars, fnVars>>

\* lines 576-586
Finally ==
    /\ entry = "core" /\ pc = "finally"
    /\ disk' = Remove(disk, Range(all_images))
    /\ pc' = "done"
    /\ UNCHANGED <<inputVars, dirVars, rng, all_images, pages_temp_dir, all_page_paths, page_num,
                   i, cards, pdf_input, pdf_bytes, result, error_at, wrapVars, fnVars>>

(***************************************************************************)
(* generar_loteria.py: main                                                *)
(***************************************************************************)
\* lines 378-381
CliCheckCount ==
    /\ entry = "cli" /\ pc = "start"
    /\ IF cantidad_tablas <= 0
       THEN /\ result' = "exit1"
            /\ error_at' = "count"
            /\ pc' = "done"
       ELSE /\ pc' = "load"
            /\ UNCHANGED <<result, error_at>>
    /\ UNCHANGED <<inputVars, dirVars, rng, disk, all_images, pages_temp_dir, all_page_paths,
                   page_num, i, cards, pdf_input, pdf_bytes, wrapVars, fnVars>>

\* lines 392-405
CliLoadImages ==
    /\ entry = "cli" /\ pc = "load"
    /\ LET r == load_images(folder_exists, folder)
       IN  IF r.error # ""
           THEN /\ result' = "exit1"
                /\ error_at' = r.error
                /\ pc' = "done"
                /\ UNCHANGED <<temp_dir, all_images, i>>
           ELSE /\ all_images' = r.images
                /\ temp_dir' \in mkdtemp(DirsOf(pages_temp_dir))
                /\ i' = 1
                /\ pc' = "cards"
                /\ UNCHANGED <<result, error_at>>
    /\ UNCHANGED <<inputVars, pages_dir, rng, disk, pages_temp_dir, all_page_paths,
                   page_num, cards, pdf_input, pdf_bytes, wrapVars, fnVars>>

\* lines 412-422, one iteration
CliCardPage ==
    /\ entry = "cli" /\ pc = "cards"
    /\ i <= cantidad_tablas
    /\ LET s == random_sample(Positions(all_images), IMAGES_PER_CARD, rng)
           selected_images == Selected(all_images, s.selected)
           card_image == cli_create_card_image(disk, selected_images, nombre_loteria, i)
           temp_card_path == os_path_join(temp_dir, <<"tabla", i>>)
       IN  /\ rng' = s.rng
           /\ cards' = Append(cards, s.selected)
           /\ pages_temp_dir' = Put(pages_temp_dir, temp_card_path, card_image)
           /\ all_page_paths' = Append(all_page_paths, temp_card_path)
    /\ i' = i + 1
    /\ UNCHANGED <<inputVars, dirVars, pc, disk, all_images, page_num, pdf_input, pdf_bytes,
                   result, error_at, wrapVars, fnVars>>

\* lines 429-448: generate_pdf and the removal of the page files
CliGeneratePdf ==
    /\ entry = "cli" /\ pc = "cards"
    /\ i > cantidad_tablas
    /\ pdf_input' = all_page_paths
    /\ pdf_bytes' = Document(pages_temp_dir, all_page_paths)
    /\ pages_temp_dir' = Remove(pages_temp_dir, Range(all_page_paths))
    /\ result' = "pdf"
    /\ pc' = "done"
    /\ UNCHANGED <<inputVars, dirVars, rng, disk, all_images, all_page_paths, page_num, i, cards,
                   error_at, wrapVars, fnVars>>

Next ==
    \/ LoadUploads
    \/ ValidatePool
    \/ DeckPage
    \/ CardPage
    \/ Convert
    \/ ConvertEmpty
    \/ CleanupPages
    \/ Finally
    \/ CliCheckCount
    \/ CliLoadImages
    \/ CliCardPage
    \/ CliGeneratePdf

Spec == Init /\ [][Next]_vars


(***************************************************************************)
(* wrap_text as a run of its own: any text up to MaxLen characters and any *)
(* max_width up to MaxW                                                    *)
(***************************************************************************)
Texts == UNION {[1..n -> Alphabet] : n \in 0..MaxLen}

InitWrap ==
    /\ entry = "wrap"
    /\ pc = "start"
    /\ text \in Texts
    /\ max_width \in 0..MaxW
    /\ lines = <<>>
    /\ uploaded_files = <<>>
    /\ folder_exists = FALSE
    /\ folder = <<>>
    /\ cantidad_tablas = 0
    /\ include_deck = FALSE
    /\ nombre_loteria = NOMBRE_LOTERIA
    /\ rng = Seeded(0)
    /\ disk = EmptyFn
    /\ InitIdle
    /\ InitNoCall

WrapText ==
    /\ entry = "wrap" /\ pc = "start"
    /\ lines' = wrap_text(text, max_width)
    /\ pc' = "done"
    /\ UNCHANGED <<entry, genVars, text, max_width, fnVars>>

NextWrap == WrapText

SpecWrap == InitWrap /\ [][NextWrap]_vars

(***************************************************************************)
(* Properties                                                              *)
(***************************************************************************)
IsCard(page) == page.kind = "card"
IsDeck(page) == page.kind = "deck"
IsDeckPath(path) == Stem(path) = "deck_page"

\* img2pdf.convert has been called by generate_loteria_pdf
ConvertCalled ==
    entry = "core" /\ pc \in {"cleanup", "finally", "done"} /\ error_at # "pool"

NothingRendered ==
    /\ all_page_paths = <<>>
    /\ pages_temp_dir = EmptyFn
    /\ cards = <<>>
    /\ pdf_input = <<>>
    /\ pdf_bytes = <<>>

\* ceil(n / 16)
CeilDiv16(n) == CHOOSE d \in 0..n : 16 * d >= n /\ 16 * (d - 1) < n

\* C1: for a pool of at least 16 entries and a card count n >= 1, generation
\* samples exactly n cards, and every card is 16 pairwise distinct positions
\* of the pool, whose images are the ones the card page is rendered from.
C1_CardsSampled ==
    /\ \A c \in DOMAIN cards :
          /\ Len(cards[c]) = IMAGES_PER_CARD
          /\ \A a \in DOMAIN cards[c] : cards[c][a] \in 1..Len(all_images)
          /\ \A a, b \in DOMAIN cards[c] : a # b => cards[c][a] # cards[c][b]
    /\ (result = "pdf" /\ cantidad_tablas >= 1 /\ Len(all_images) >= IMAGES_PER_CARD) =>
          LET cp == SelectSeq(pdf_bytes, IsCard)
          IN  /\ Len(cards) = cantidad_tablas
              /\ Len(cp) = cantidad_tablas
              /\ \A c \in DOMAIN cp :
                    /\ Len(cp[c].images) = IMAGES_PER_CARD
                    /\ \A k \in 1..IMAGES_PER_CARD :
                          cp[c].images[k] = all_images[cards[c][k]]

\* two different cards drawn from a pool larger than a card, sharing an entry
C1_Witness ==
    /\ result = "pdf"
    /\ Len(all_images) > IMAGES_PER_CARD
    /\ Len(cards) >= 2
    /\ cards[1] # cards[2]
    /\ Range(cards[1]) # Range(cards[2])
    /\ Range(cards[1]) \cap Range(cards[2]) # {}

RECURSIVE ConcatImages(_, _)
ConcatImages(dir, paths) ==
    IF paths = <<>> THEN <<>>
    ELSE dir[Head(paths)].images \o ConcatImages(dir, Tail(paths))

\* C2: deck page k (0-based) is rendered from the pool entries at indices
\* [16k, min(16k+16, len(pool))), and the image lists of the deck pages, in
\* page order, concatenate to the pool.
C2_DeckPagination ==
    /\ \A p \in DOMAIN pages_temp_dir :
          IsDeckPath(p) =>
             LET k == Basename(p)[2] - 1
                 lo == 16 * k
                 hi == Min(16 * k + 16, Len(all_images))
                 page_images == pages_temp_dir[p].images
             IN  /\ Len(page_images) = hi - lo
                 /\ \A j \in 1..(hi - lo) : page_images[j] = all_images[lo + j]
    /\ (entry = "core" /\ include_deck /\ pc \in {"cards", "cleanup"}) =>
          ConcatImages(pages_temp_dir, SelectSeq(all_page_paths, IsDeckPath)) = all_images

\* a deck of three pages whose last page is partial
C2_Witness ==
    /\ entry = "core" /\ include_deck /\ pc = "cleanup"
    /\ Len(all_images) > 2 * 16
    /\ Len(all_images) % 16 # 0
    /\ Len(SelectSeq(all_page_paths, IsDeckPath)) = 3

\* C3: for a pool of at least 16 entries and a card count n >= 1, the list
\* handed to img2pdf.convert has D + n entries, D = ceil(len(pool)/16) with
\* the deck and 0 without; every deck page is rendered from at least one
\* image and every deck page but the last from 16.
C3_PageCount ==
    (ConvertCalled /\ Len(all_images) >= IMAGES_PER_CARD /\ cantidad_tablas >= 1) =>
        LET dp == SelectSeq(pdf_bytes, IsDeck)
        IN  /\ Len(pdf_input) =
                  (IF include_deck THEN CeilDiv16(Len(all_images)) ELSE 0) + cantidad_tablas
            /\ Len(pdf_bytes) = Len(pdf_input)
            /\ \A k \in DOMAIN dp :
                  /\ Len(dp[k].images) >= 1
                  /\ k < Len(dp) => Len(dp[k].images) = 16

\* 17 images with the deck and two cards: 2 + 2 pages
C3_Witness ==
    /\ ConvertCalled /\ include_deck
    /\ Len(all_images) = IMAGES_PER_CARD + 1
    /\ cantidad_tablas = 2
    /\ Len(pdf_input) = 4

\* C4: in the list handed to img2pdf.convert and in the document built from
\* it, the deck pages 1..D come first, in increasing page number, followed by
\* the cards 1..count in increasing folio; each page of the document is the
\* page rendered under that name.
C4_PageOrder ==
    ConvertCalled =>
        LET dp == SelectSeq(pdf_bytes, IsDeck)
            cp == SelectSeq(pdf_bytes, IsCard)
        IN  /\ Len(pdf_bytes) = Len(pdf_input)
            /\ \A a \in DOMAIN pdf_input :
                  /\ pdf_bytes[a].number = Basename(pdf_input[a])[2]
                  /\ IsDeck(pdf_bytes[a]) <=> IsDeckPath(pdf_input[a])
            /\ \A a, b \in DOMAIN pdf_bytes :
                  (a < b) => ~(IsCard(pdf_bytes[a]) /\ IsDeck(pdf_bytes[b]))
            /\ \A k \in DOMAIN dp : dp[k].number = k
            /\ \A k \in DOMAIN cp : cp[k].number = k
            /\ Len(dp) = IF include_deck THEN CeilDiv16(Len(all_images)) ELSE 0
            /\ Len(cp) = IF cantidad_tablas > 0 THEN cantidad_tablas ELSE 0

\* a document of at least two deck pages and two cards
C4_Witness ==
    /\ entry = "core" /\ result = "pdf"
    /\ Len(SelectSeq(pdf_bytes, IsDeck)) >= 2
    /\ Len(SelectSeq(pdf_bytes, IsCard)) >= 2

\* the files load_images globs, and those of them that verify
FoundInFolder == {k \in DOMAIN folder : Suffix(folder[k].name) \in GlobExtensions}
ValidInFolder == {k \in FoundInFolder : folder[k].data # "corrupt"}

\* the uploads that pass the extension filter
AcceptedUploads ==
    {k \in DOMAIN uploaded_files :
        Lower(Suffix(uploaded_files[k].name)) \in VALID_EXTENSIONS}

\* C5: with fewer than 16 images the run fails with the insufficient-images
\* error before any page is rendered or any card sampled and produces no
\* document: in generate_loteria_pdf after the extension filter, in the CLI
\* both on the files found and on the files that verify.
C5_InsufficientImages ==
    /\ (entry = "core" /\ pc \notin {"start", "validate"}
            /\ Cardinality(AcceptedUploads) < 16) =>
          /\ pc \in {"finally", "done"}
          /\ result = "ValueError" /\ error_at = "pool"
          /\ NothingRendered
    /\ (entry = "cli" /\ pc \notin {"start", "load"} /\ folder_exists
            /\ cantidad_tablas >= 1 /\ Cardinality(ValidInFolder) < 16) =>
          /\ pc = "done"
          /\ result = "exit1"
          /\ error_at = IF Cardinality(FoundInFolder) < 16 THEN "found" ELSE "valid"
          /\ NothingRendered

\* 16 uploads of which the extension filter keeps 15
C5_Witness ==
    /\ entry = "core" /\ pc = "done"
    /\ Len(uploaded_files) >= 16
    /\ Len(all_images) = 15
    /\ result = "ValueError"
    /\ NothingRendered

\* C6 (as claimed; generate_loteria_pdf does not check the count): a card
\* count <= 0 is rejected before any sampling or rendering and no document
\* is produced.
C6_CountRejected ==
    (cantidad_tablas <= 0) =>
        /\ all_page_paths = <<>>
        /\ cards = <<>>
        /\ result # "pdf"

\* C7 (as claimed; generate_loteria_pdf returns pages on which nothing
\* decoded): a run with a positive card count returns a document only if
\* some page of it shows an image.
C7_NoEmptyDocument ==
    (entry = "core" /\ cantidad_tablas >= 1 /\ result = "pdf") =>
        \E k \in DOMAIN pdf_bytes : Usable(pdf_bytes[k])

\* C8: on every page, the cell of supplied image idx (row idx // 4, column
\* idx % 4) shows that image when it decodes and nothing of it when it does
\* not, whatever happened to the other images; every iteration still yields
\* its page, and a run that rendered pages ends with the document.
C8_FailureIsLocal ==
    /\ \A p \in DOMAIN pages_temp_dir :
          LET page == pages_temp_dir[p]
          IN  \A idx \in 0 .. (Min(Len(page.images), 16) - 1) :
                 LET cell == page.cells[<<idx \div 4, idx % 4>>]
                     path == page.images[idx + 1]
                 IN  IF Data(disk, path) = "ok"
                     THEN cell.image = <<path>> /\ cell.caption = <<Stem(path)>>
                     ELSE cell.image = <<>> /\ cell.caption = <<>>
    /\ (pc \in {"deck", "cards"}) =>
          /\ Len(all_page_paths) = page_num + i - 1
          /\ Range(all_page_paths) \subseteq DOMAIN pages_temp_dir
    /\ (pc = "done" /\ all_page_paths # <<>>) => result = "pdf"

\* a card with exactly one failed image, followed by an image in its own cell
C8_Witness ==
    \E p \in DOMAIN pages_temp_dir :
        LET page == pages_temp_dir[p]
        IN  /\ IsCard(page)
            /\ Cardinality({rc \in Grid : page.cells[rc].image = <<>>}) = 1
            /\ \E idx \in 0..14 :
                  /\ page.cells[<<idx \div 4, idx % 4>>].image = <<>>
                  /\ page.cells[<<(idx + 1) \div 4, (idx + 1) % 4>>].image
                        = <<page.images[idx + 2]>>

RECURSIVE WordsOf(_)
WordsOf(ls) == IF ls = <<>> THEN <<>> ELSE Split(Head(ls)) \o WordsOf(Tail(ls))

\* C9: the lines returned by wrap_text, split on whitespace and concatenated
\* in line order, are the whitespace-separated words of the text.
C9_WordsPreserved ==
    (entry = "wrap" /\ pc = "done") => WordsOf(lines) = Split(text)

\* a text of three words or more wrapped into several lines
C9_Witness ==
    /\ entry = "wrap" /\ pc = "done"
    /\ Len(Split(text)) >= 3
    /\ Len(lines) >= 2
    /\ \E k \in DOMAIN lines : Len(Split(lines[k])) >= 2

\* C10: every line returned by wrap_text is at most max_width wide, unless it
\* is a single word that is wider by itself; a word wider than max_width is
\* a line of its own, unsplit.
C10_LineWidths ==
    (entry = "wrap" /\ pc = "done") =>
        /\ \A k \in DOMAIN lines :
              LET ws == Split(lines[k])
              IN  /\ \/ Width(lines[k]) <= max_width
                     \/ Len(ws) = 1 /\ lines[k] = ws[1] /\ Width(ws[1]) > max_width
                  /\ (\E a \in DOMAIN ws : Width(ws[a]) > max_width) =>
                        Len(ws) = 1 /\ lines[k] = ws[1]
        /\ \A a \in DOMAIN Split(text) :
              Width(Split(text)[a]) > max_width =>
                 \E k \in DOMAIN lines : lines[k] = Split(text)[a]

\* a word wider than max_width between two lines that fit
C10_Witness ==
    /\ entry = "wrap" /\ pc = "done"
    /\ Len(lines) >= 3
    /\ \E k \in 2 .. (Len(lines) - 1) :
          /\ Width(lines[k]) > max_width
          /\ Width(lines[k - 1]) <= max_width
          /\ Width(lines[k + 1]) <= max_width

\* C11 (as claimed; wrap_text returns no line for a text of whitespace wider
\* than max_width): wrap_text returns at least one line for every non-empty
\* text.
C11_NeverEmpty ==
    (entry = "wrap" /\ pc = "done" /\ text # <<>>) => Len(lines) >= 1

(***************************************************************************)
(* resize_image_to_fit as a run of its own: any image and any target box   *)
(* of 1..MaxDim pixels a side.  The scale is a double; int(dim * scale) is *)
(* the floor of the exact product, except where the double product of an   *)
(* exactly integral value is rounded to just below it and then truncates   *)
(* to one less: 11 * (15 / 11.0) is 14.99.. .  RoundsBelow tabulates these *)
(* cases of IEEE double arithmetic for sides up to 17 pixels.              *)
(***************************************************************************)
MaxDim == 15

\* lines 65-67: the <<dim, num, den>> with all three in 1..17 for which the
\* double dim * (num / den) is below the floor of the exact product
RoundsBelow == {<<11, 15, 11>>, <<13, 15, 13>>}

\* mutation of WidthRatioIsMin: max instead of min
WidthRatioIsMin_Max(iw, ih, tw, th) == tw * ih >= th * iw

\* line 65: min(target_width / image.width, target_height / image.height)
\* is the first of the two ratios
WidthRatioIsMin(iw, ih, tw, th) == tw * ih <= th * iw

\* lines 66-67: int(dim * scale) for scale = num / den
Scaled(dim, num, den) ==
    LET q == (dim * num) \div den
    IN  IF <<dim, num, den>> \in RoundsBelow THEN q - 1 ELSE q

\* line 70: image.resize raises ValueError ("height and width must be > 0")
\* for a size with a zero in it
ResizeRaises(nw, nh) == nw = 0 \/ nh = 0

\* lines 65-80: the scaled size, and either the ValueError of image.resize,
\* which leaves the function before anything is pasted, or the offsets of
\* the paste
resize_image_to_fit(iw, ih, tw, th) ==
    LET num == IF WidthRatioIsMin(iw, ih, tw, th) THEN tw ELSE th
        den == IF WidthRatioIsMin(iw, ih, tw, th) THEN iw ELSE ih
        nw  == Scaled(iw, num, den)
        nh  == Scaled(ih, num, den)
    IN  IF ResizeRaises(nw, nh)
        THEN [error |-> "ValueError", new_width |-> nw, new_height |-> nh]
        ELSE [error |-> "", new_width |-> nw, new_height |-> nh,
              offset_x |-> (tw - nw) \div 2, offset_y |-> (th - nh) \div 2]

InitNoGen ==
    /\ uploaded_files = <<>>
    /\ folder_exists = FALSE
    /\ folder = <<>>
    /\ cantidad_tablas = 0
    /\ include_deck = FALSE
    /\ nombre_loteria = NOMBRE_LOTERIA
    /\ rng = Seeded(0)
    /\ disk = EmptyFn
    /\ InitIdle

InitResize ==
    /\ entry = "resize"
    /\ pc = "start"
    /\ call \in [image_width : 1..MaxDim, image_height : 1..MaxDim,
                 target_width : 1..MaxDim, target_height : 1..MaxDim]
    /\ ret = <<>>
    /\ InitNoGen
    /\ InitNoWrap

ResizeImageToFit ==
    /\ entry = "resize" /\ pc = "start"
    /\ ret' = resize_image_to_fit(call.image_width, call.image_height,
                                  call.target_width, call.target_height)
    /\ pc' = IF ret'.error = "" THEN "done" ELSE "raised"
    /\ UNCHANGED <<entry, genVars, wrapVars, call>>

NextResize == ResizeImageToFit

SpecResize == InitResize /\ [][NextResize]_vars

\* C12: the scaled size computed by resize_image_to_fit is at most the target
\* in both dimensions, and one of the two dimensions is its target or one
\* pixel less; the call raises exactly when a computed dimension is 0, and
\* otherwise the image is pasted at offsets that are not negative.
C12_AspectFit ==
    (entry = "resize" /\ pc \in {"done", "raised"}) =>
        /\ ret.new_width <= call.target_width
        /\ ret.new_height <= call.target_height
        /\ \/ call.target_width - ret.new_width <= 1
           \/ call.target_height - ret.new_height <= 1
        /\ pc = "raised" <=> (ret.new_width = 0 \/ ret.new_height = 0)
        /\ pc = "done" => (ret.offset_x >= 0 /\ ret.offset_y >= 0)

\* an image whose width truncates to one pixel less than the target width
\* while its height stays well inside the target height
C12_Witness ==
    /\ entry = "resize" /\ pc = "done"
    /\ ret.new_width = call.target_width - 1
    /\ call.target_height - ret.new_height >= 2
    /\ ret.offset_y >= 1

\* the pages written so far
Pages == {pages_temp_dir[p] : p \in DOMAIN pages_temp_dir}

\* C13 (as claimed; a deck cell is 763 pixels high and a card cell 693):
\* card pages and deck pages use the same cell_width and the same
\* cell_height.
C13_SameCellSize ==
    \A p, q \in Pages :
        p.cell_width = q.cell_width /\ p.cell_height = q.cell_height

\* C13 (amended): card pages and deck pages use the same cell_width; pages of
\* one kind use the same cell_height, and a deck cell is higher than a card
\* cell by a quarter of the title band and the folio band, which a deck page
\* does not have.
C13_CellSizeByKind ==
    \A p, q \in Pages :
        /\ p.cell_width = q.cell_width
        /\ p.kind = q.kind => p.cell_height = q.cell_height
        /\ (IsCard(p) /\ IsDeck(q)) =>
              q.cell_height - p.cell_height = (TITLE_HEIGHT + FOLIO_HEIGHT) \div GRID_SIZE

\* a run that has written a deck page and a card page
C13_Witness ==
    /\ entry = "core"
    /\ \E p, q \in Pages : IsCard(p) /\ IsDeck(q)

(***************************************************************************)
(* One grid cell of one page, as a run of its own: where create_card_image *)
(* and create_deck_page put the cell at (row, col) and the caption block   *)
(* of an image whose wrapped caption has the given line heights (what      *)
(* draw.textbbox measures; any of LineHeights per line).                   *)
(***************************************************************************)
MaxLines == 3

LineHeights == {22, 29}

line_spacing == 5

grid_start_x == MARGIN_LEFT

grid_start_y(kind) == IF kind = "card" THEN MARGIN_TOP + TITLE_HEIGHT ELSE MARGIN_TOP

available_height(kind) ==
    IF kind = "card" THEN card_available_height ELSE deck_available_height

cell_width(kind) == IF kind = "card" THEN card_cell_width ELSE deck_cell_width

cell_height(kind) == IF kind = "card" THEN card_cell_height ELSE deck_cell_height

\* cell_x, cell_y and the cell's size
CellRect(kind, row, col) ==
    [x |-> grid_start_x + col * (cell_width(kind) + GAP_BETWEEN_IMAGES),
     y |-> grid_start_y(kind) + row * (cell_height(kind) + GAP_BETWEEN_IMAGES),
     w |-> cell_width(kind),
     h |-> cell_height(kind)]

RECURSIVE SumSeq(_)
SumSeq(s) == IF s = <<>> THEN 0 ELSE Head(s) + SumSeq(Tail(s))

\* mutation of total_text_height: line_spacing is counted after every line
total_text_height_EveryLine(line_heights) ==
    SumSeq(line_heights) + Len(line_heights) * line_spacing

\* the line heights, and line_spacing between the lines when there are two
\* or more
total_text_height(line_heights) ==
    SumSeq(line_heights) +
        (IF Len(line_heights) > 1 THEN (Len(line_heights) - 1) * line_spacing ELSE 0)

\* label_y: a deck cell keeps the caption clear of its border
label_y(kind, rect, line_heights) ==
    IF kind = "card"
    THEN rect.y + rect.h - LABEL_PADDING_BOTTOM - total_text_height(line_heights)
    ELSE rect.y + rect.h - LABEL_PADDING_BOTTOM - total_text_height(line_heights)
             - CARD_BORDER_WIDTH

\* current_y at each draw_text_with_outline: it starts at label_y and moves
\* down by line_heights[i] + line_spacing after line i
CurrentYs(start_y, line_heights) ==
    [k \in 1..Len(line_heights) |->
        start_y + SumSeq(SubSeq(line_heights, 1, k - 1)) + (k - 1) * line_spacing]

HeightLists == UNION {[1..n -> LineHeights] : n \in 0..MaxLines}

InitLayout ==
    /\ entry = "layout"
    /\ pc = "start"
    /\ call \in [kind : {"card", "deck"}, row : 0 .. GRID_SIZE - 1,
                 col : 0 .. GRID_SIZE - 1, line_heights : HeightLists]
    /\ ret = <<>>
    /\ InitNoGen
    /\ InitNoWrap

\* create_deck_page: the space inside the border, and the part of it that
\* the image gets once the legend band is taken off
legend_height == 50

deck_inner_width == deck_cell_width - (2 * CARD_BORDER_WIDTH) - 10

deck_inner_height == deck_cell_height - (2 * CARD_BORDER_WIDTH) - 10

image_height == deck_inner_height - legend_height

\* the body of the grid loop of create_card_image for one image that opens
DrawCardCell ==
    /\ entry = "layout" /\ pc = "start" /\ call.kind = "card"
    /\ LET rect == CellRect("card", call.row, call.col)
           y0 == label_y("card", rect, call.line_heights)
       IN  ret' = [cell |-> rect, max_text_width |-> rect.w - 20, label_y |-> y0,
                   line_ys |-> CurrentYs(y0, call.line_heights)]
    /\ pc' = "done"
    /\ UNCHANGED <<entry, genVars, wrapVars, call>>

\* the body of the loop of create_deck_page for one image that opens
DrawDeckCell ==
    /\ entry = "layout" /\ pc = "start" /\ call.kind = "deck"
    /\ LET rect == CellRect("deck", call.row, call.col)
           y0 == label_y("deck", rect, call.line_heights)
       IN  ret' = [cell |-> rect,
                   img_x |-> rect.x + CARD_BORDER_WIDTH + 5,
                   img_y |-> rect.y + CARD_BORDER_WIDTH + 5,
                   inner_width |-> deck_inner_width,
                   image_height |-> image_height,
                   max_text_width |-> rect.w - (2 * CARD_BORDER_WIDTH) - 20,
                   label_y |-> y0,
                   line_ys |-> CurrentYs(y0, call.line_heights)]
    /\ pc' = "done"
    /\ UNCHANGED <<entry, genVars, wrapVars, call>>

NextLayout == DrawCardCell \/ DrawDeckCell

SpecLayout == InitLayout /\ [][NextLayout]_vars

LayoutDone == entry = "layout" /\ pc = "done"

\* the two rectangles share no pixel
Apart(r, s) ==
    \/ r.x + r.w <= s.x
    \/ s.x + s.w <= r.x
    \/ r.y + r.h <= s.y
    \/ s.y + s.h <= r.y

\* C14: on both page kinds the cell at every (row, col) lies inside the
\* canvas and inside the margins, shares no pixel with the cell of any other
\* grid position, and the grid starts exactly at its origin with exactly the
\* gap between neighbours, so that the remainder of the floor division lies
\* after the last column and after the last row.
C14_CellsInside ==
    LayoutDone =>
        LET r == ret.cell
            kind == call.kind
            rem_w == (available_width - (GRID_SIZE - 1) * GAP_BETWEEN_IMAGES) % GRID_SIZE
            rem_h == (available_height(kind) - (GRID_SIZE - 1) * GAP_BETWEEN_IMAGES) % GRID_SIZE
        IN  /\ r.w >= 1 /\ r.h >= 1
            /\ r.x >= MARGIN_LEFT /\ r.x + r.w <= PAGE_WIDTH - MARGIN_RIGHT
            /\ r.y >= MARGIN_TOP /\ r.y + r.h <= PAGE_HEIGHT - MARGIN_BOTTOM
            /\ \A rc \in Grid :
                  rc # <<call.row, call.col>> => Apart(r, CellRect(kind, rc[1], rc[2]))
            /\ call.col = 0 => r.x = MARGIN_LEFT
            /\ call.row = 0 => r.y = grid_start_y(kind)
            /\ call.col < GRID_SIZE - 1 =>
                  CellRect(kind, call.row, call.col + 1).x = r.x + r.w + GAP_BETWEEN_IMAGES
            /\ call.row < GRID_SIZE - 1 =>
                  CellRect(kind, call.row + 1, call.col).y = r.y + r.h + GAP_BETWEEN_IMAGES
            /\ call.col = GRID_SIZE - 1 =>
                  r.x + r.w = MARGIN_LEFT + available_width - rem_w
            /\ call.row = GRID_SIZE - 1 =>
                  r.y + r.h = grid_start_y(kind) + available_height(kind) - rem_h

\* the last cell of a deck page, which ends short of the bottom margin by the
\* remainder
C14_Witness ==
    /\ LayoutDone
    /\ call.kind = "deck"
    /\ call.row = GRID_SIZE - 1 /\ call.col = GRID_SIZE - 1
    /\ ret.cell.y + ret.cell.h < PAGE_HEIGHT - MARGIN_BOTTOM
    /\ ret.cell.y + ret.cell.h > PAGE_HEIGHT - MARGIN_BOTTOM - GRID_SIZE

\* where the caption block of the placed cell ends: the y of its last line
\* plus that line's height
BlockBottom ==
    ret.line_ys[Len(ret.line_ys)] + call.line_heights[Len(call.line_heights)]

\* C20 (as claimed; create_deck_page also takes CARD_BORDER_WIDTH off
\* label_y): on every page kind the caption block ends exactly
\* LABEL_PADDING_BOTTOM pixels above the bottom edge of its cell, for any
\* number of lines.
C20_PaddingOnEveryKind ==
    (LayoutDone /\ Len(call.line_heights) >= 1) =>
        /\ ret.line_ys[1] = ret.label_y
        /\ BlockBottom = ret.cell.y + ret.cell.h - LABEL_PADDING_BOTTOM

\* C20 (amended): on a card page the caption block ends exactly
\* LABEL_PADDING_BOTTOM pixels above the bottom edge of its cell; on a deck
\* page it ends LABEL_PADDING_BOTTOM + CARD_BORDER_WIDTH pixels above it;
\* the first line is drawn at label_y and each next line line_spacing below
\* the end of the one before.
C20_PaddingByKind ==
    (LayoutDone /\ Len(call.line_heights) >= 1) =>
        /\ ret.line_ys[1] = ret.label_y
        /\ \A k \in 1 .. (Len(ret.line_ys) - 1) :
              ret.line_ys[k + 1] = ret.line_ys[k] + call.line_heights[k] + line_spacing
        /\ call.kind = "card" =>
              BlockBottom = ret.cell.y + ret.cell.h - LABEL_PADDING_BOTTOM
        /\ call.kind = "deck" =>
              BlockBottom = ret.cell.y + ret.cell.h
                                - (LABEL_PADDING_BOTTOM + CARD_BORDER_WIDTH)

\* a caption of three lines of unequal heights in a deck cell
C20_Witness ==
    /\ LayoutDone
    /\ call.kind = "deck"
    /\ Len(call.line_heights) = 3
    /\ call.line_heights[1] # call.line_heights[2]
    /\ ret.line_ys[3] > ret.line_ys[2]

(***************************************************************************)
(* generate_loteria_pdf with failures of the environment: Image.save can   *)
(* raise OSError (a full disk) and img2pdf.convert can raise on a page it  *)
(* cannot read.  Neither is caught inside the try block, so both leave     *)
(* through finally.  A save that fails leaves no file of its own behind.   *)
(***************************************************************************)
\* line 544 raises
DeckSaveFails ==
    /\ entry = "core" /\ pc = "deck"
    /\ page_num < num_deck_pages(all_images)
    /\ result' = "OSError"
    /\ error_at' = "save"
    /\ pc' = "finally"
    /\ UNCHANGED <<inputVars, dirVars, rng, disk, all_images, pages_temp_dir, all_page_paths,
                   page_num, i, cards, pdf_input, pdf_bytes, wrapVars, fnVars>>

\* line 557 raises, after random.sample and create_card_image
CardSaveFails ==
    /\ entry = "core" /\ pc = "cards"
    /\ i <= cantidad_tablas
    /\ LET s == random_sample(Positions(all_images), IMAGES_PER_CARD, rng)
       IN  /\ rng' = s.rng
           /\ cards' = Append(cards, s.selected)
    /\ result' = "OSError"
    /\ error_at' = "save"
    /\ pc' = "finally"
    /\ UNCHANGED <<inputVars, dirVars, disk, all_images, pages_temp_dir, all_page_paths,
                   page_num, i, pdf_input, pdf_bytes, wrapVars, fnVars>>

\* line 561 raises on a non-empty page list
ConvertFails ==
    /\ entry = "core" /\ pc = "cards"
    /\ i > cantidad_tablas
    /\ all_page_paths # <<>>
    /\ pdf_input' = all_page_paths
    /\ result' = "ConvertError"
    /\ error_at' = "convert"
    /\ pc' = "finally"
    /\ UNCHANGED <<inputVars, dirVars, rng, disk, all_images, pages_temp_dir, all_page_paths,
                   page_num, i, cards, pdf_bytes, wrapVars, fnVars>>

NextFaults ==
    \/ Next
    \/ DeckSaveFails
    \/ CardSaveFails
    \/ ConvertFails

SpecFaults == Init /\ [][NextFaults]_vars

\* C15 (as claimed; the page files are removed only on the line after a
\* successful img2pdf.convert): when generate_loteria_pdf ends, on any exit
\* path of a call with a card count of at least 1, no page file is left in
\* pages_temp_dir.
C15_PagesReleased ==
    (entry = "core" /\ pc = "done" /\ cantidad_tablas >= 1) =>
        pages_temp_dir = EmptyFn

\* C17 (as claimed; two uploads of the same name are written to the same
\* temporary path, and the path is appended once per upload): the pool that
\* load_images_from_uploads builds holds each path at most once.
C17_PoolUnique ==
    entry = "core" =>
        \A a, b \in DOMAIN all_images : a # b => all_images[a] # all_images[b]

(***************************************************************************)
(* create_deck_page as a run of its own, on any list of 0 to 16 + MaxExtra *)
(* image files: more than a page holds, and fewer.                         *)
(***************************************************************************)
DeckInputs ==
    UNION { {MkFiles(n, "plain", b[1], b[2]) : b \in BadChoices(n)}
            : n \in 0 .. (IMAGES_PER_CARD + MaxExtra) }

InitDeck ==
    /\ entry = "deck_page"
    /\ pc = "start"
    /\ \E files \in DeckInputs, dir \in TempDirs :
          /\ disk = load_images_from_uploads(files, dir, EmptyFn).disk
          /\ call = [image_paths |->
                        load_images_from_uploads(files, dir, EmptyFn).image_paths,
                     page_number |-> 1]
    /\ ret = <<>>
    /\ uploaded_files = <<>>
    /\ folder_exists = FALSE
    /\ folder = <<>>
    /\ cantidad_tablas = 0
    /\ include_deck = FALSE
    /\ nombre_loteria = NOMBRE_LOTERIA
    /\ rng = Seeded(0)
    /\ InitIdle
    /\ InitNoWrap

CreateDeckPage ==
    /\ entry = "deck_page" /\ pc = "start"
    /\ ret' = create_deck_page(disk, call.image_paths, call.page_number)
    /\ pc' = "done"
    /\ UNCHANGED <<entry, genVars, wrapVars, call>>

NextDeck == CreateDeckPage

SpecDeck == InitDeck /\ [][NextDeck]_vars

\* C19: create_deck_page puts supplied image idx < 16 in the cell at row
\* idx // 4, column idx % 4 (its border, and its image and caption when the
\* image can be drawn), shows no image of index 16 or more, and leaves the
\* cells at positions m..15 of a list of m < 16 images without border, image
\* and caption.
C19_DeckPlacement ==
    (entry = "deck_page" /\ pc = "done") =>
        LET paths == call.image_paths
            m == Len(paths)
        IN  /\ \A idx \in 0 .. (m - 1) :
                  LET cell == ret.cells[<<idx \div GRID_SIZE, idx % GRID_SIZE>>]
                  IN  IF idx < 16
                      THEN /\ disk[paths[idx + 1]] = "ok" =>
                                 /\ cell.border
                                 /\ cell.image = <<paths[idx + 1]>>
                                 /\ cell.caption = <<Stem(paths[idx + 1])>>
                           /\ disk[paths[idx + 1]] # "ok" => cell.image = <<>>
                      ELSE \A rc \in Grid : ret.cells[rc].image # <<paths[idx + 1]>>
            /\ \A rc \in Grid :
                  rc[1] * GRID_SIZE + rc[2] >= m => ret.cells[rc] = BlankCell

\* a list of 17 images: the last cell shows image 15 and image 16 is left out
C19_Witness ==
    /\ entry = "deck_page" /\ pc = "done"
    /\ Len(call.image_paths) > 16
    /\ ret.cells[<<3, 3>>].image = <<call.image_paths[16]>>
    /\ ret.cells[<<1, 2>>].image = <<call.image_paths[7]>>

(***************************************************************************)
(* Runs of up to MaxFolios cards over one pool of 16 images, through       *)
(* generate_loteria_pdf and through main: enough cards for folio numbers   *)
(* of one digit and of two.                                                *)
(***************************************************************************)
MaxFolios == 11

FolioFiles == MkFiles(IMAGES_PER_CARD, "plain", {}, "ok")

InitFolio ==
    /\ entry \in {"core", "cli"}
    /\ pc = "start"
    /\ uploaded_files = (IF entry = "core" THEN FolioFiles ELSE <<>>)
    /\ folder_exists = (entry = "cli")
    /\ folder = (IF entry = "cli" THEN Reverse(FolioFiles) ELSE <<>>)
    /\ cantidad_tablas \in 1 .. MaxFolios
    /\ include_deck \in (IF entry = "core" THEN BOOLEAN ELSE {FALSE})
    /\ nombre_loteria = NOMBRE_LOTERIA
    /\ rng = Seeded(0)
    /\ disk = (IF entry = "cli" THEN FolderDisk(folder) ELSE EmptyFn)
    /\ InitIdle
    /\ InitNoWrap
    /\ InitNoCall

NextFolio ==
    \/ LoadUploads
    \/ ValidatePool
    \/ DeckPage
    \/ CardPage
    \/ Convert
    \/ CleanupPages
    \/ Finally
    \/ CliCheckCount
    \/ CliLoadImages
    \/ CliCardPage
    \/ CliGeneratePdf

SpecFolio == InitFolio /\ [][NextFolio]_vars

IsCardPath(path) == Stem(path) = "tabla"

\* the number a sequence of decimal digits stands for
RECURSIVE DigitsValue(_)
DigitsValue(ds) ==
    IF ds = <<>> THEN 0
    ELSE 10 * DigitsValue(SubSeq(ds, 1, Len(ds) - 1)) + ds[Len(ds)]

\* the folio text of the page reads as the page's number, in at least two
\* digits and with no zero in front of a number of more than two
FolioTextOf(page) ==
    LET ds == page.folio_text.digits
    IN  /\ page.folio_text.prefix = "Tabla #"
        /\ \A k \in DOMAIN ds : ds[k] \in 0..9
        /\ Len(ds) >= 2
        /\ Len(ds) > 2 => ds[1] # 0
        /\ DigitsValue(ds) = page.number

\* C18: the i-th card generated in a run carries folio number i, so the
\* folio numbers are 1, 2, .. count with no gap and no repeat, and the folio
\* text of a card is its number padded with zeros to at least two digits.
C18_Folios ==
    /\ LET written == SelectSeq(all_page_paths, IsCardPath)
       IN  /\ Len(written) = Len(cards)
           /\ \A k \in DOMAIN written :
                 written[k] \in DOMAIN pages_temp_dir =>
                    /\ pages_temp_dir[written[k]].number = k
                    /\ FolioTextOf(pages_temp_dir[written[k]])
    /\ result = "pdf" =>
          LET cp == SelectSeq(pdf_bytes, IsCard)
          IN  /\ Len(cp) = cantidad_tablas
              /\ \A k \in DOMAIN cp : cp[k].number = k /\ FolioTextOf(cp[k])

\* a document whose ninth card reads 09 and whose tenth reads 10
C18_Witness ==
    /\ result = "pdf"
    /\ LET cp == SelectSeq(pdf_bytes, IsCard)
       IN  /\ Len(cp) >= 10
           /\ cp[9].folio_text.digits = <<0, 9>>
           /\ cp[10].folio_text.digits = <<1, 0>>

(***************************************************************************)
(* Two calls of generate_loteria_pdf with the same uploads and parameters. *)
(* call holds the number of the run and the state of the random generator  *)
(* at its start; ret holds what the first run produced.  The second call   *)
(* is made either in the same process, where the generator goes on from    *)
(* the state the first call left, or in a new process, whose generator     *)
(* starts from any seeded state.  Each call gets its directories from      *)
(* mkdtemp, so the paths of the second run need not be those of the first. *)
(***************************************************************************)
InitReplay ==
    /\ entry = "core"
    /\ pc = "start"
    /\ uploaded_files \in FileLists({"plain"})
    /\ folder_exists = FALSE
    /\ folder = <<>>
    /\ cantidad_tablas \in 1 .. MaxTablas
    /\ include_deck \in BOOLEAN
    /\ nombre_loteria = NOMBRE_LOTERIA
    /\ rng \in SeededStates
    /\ disk = EmptyFn
    /\ InitIdle
    /\ InitNoWrap
    /\ call = [run |-> 1, rng |-> rng]
    /\ ret = <<>>

\* what the caller keeps of the first call, and the locals of the next one,
\* none of them assigned yet; the files the first call left behind stay
\* where they are
SecondCall ==
    /\ entry = "core" /\ pc = "done"
    /\ call.run = 1
    /\ ret' = [rng |-> call.rng, temp_dir |-> temp_dir, pages_dir |-> pages_dir,
               all_images |-> all_images, cards |-> cards,
               pdf_input |-> pdf_input, pdf_bytes |-> pdf_bytes, result |-> result]
    /\ pc' = "start"
    /\ temp_dir' = ""
    /\ pages_dir' = ""
    /\ all_images' = <<>>
    /\ all_page_paths' = <<>>
    /\ page_num' = 0
    /\ i' = 0
    /\ cards' = <<>>
    /\ pdf_input' = <<>>
    /\ pdf_bytes' = <<>>
    /\ result' = "running"
    /\ error_at' = ""
    /\ UNCHANGED <<inputVars, disk, pages_temp_dir, wrapVars>>

\* the caller calls generate_loteria_pdf again in the same process
Rerun ==
    /\ SecondCall
    /\ rng' = rng
    /\ call' = [run |-> 2, rng |-> rng]

\* the program is started again and generate_loteria_pdf is called
Restart ==
    /\ SecondCall
    /\ rng' \in SeededStates
    /\ call' = [run |-> 2, rng |-> rng']

NextReplay ==
    \/ LoadUploads
    \/ ValidatePool
    \/ DeckPage
    \/ CardPage
    \/ Convert
    \/ CleanupPages
    \/ Finally
    \/ Rerun
    \/ Restart

SpecReplay == InitReplay /\ [][NextReplay]_vars

SecondRunDone == entry = "core" /\ pc = "done" /\ call.run = 2

\* the names of the files at the paths, whatever directory they are in
Names(paths) == [k \in DOMAIN paths |-> Basename(paths[k])]

\* what a rendered page shows: each image is named by the uploaded file it
\* was read from, not by the temporary path of that file
Shown(page) ==
    [kind |-> page.kind, title |-> page.title, number |-> page.number,
     folio_text |-> page.folio_text,
     cell_width |-> page.cell_width, cell_height |-> page.cell_height,
     images |-> Names(page.images),
     cells |-> [rc \in Grid |->
                  [border |-> page.cells[rc].border,
                   image |-> Names(page.cells[rc].image),
                   caption |-> page.cells[rc].caption]]]

ShownPages(pages) == [k \in DOMAIN pages |-> Shown(pages[k])]

C21_CaptionInLegendBand ==
    (/\ LayoutDone
     /\ call.kind = "deck"
     /\ Len(call.line_heights) >= 1
     /\ total_text_height(call.line_heights) <= legend_height) =>
        /\ ret.image_height = (ret.cell.h - 2 * 5 - 10) - 50
        /\ ret.label_y >= ret.img_y + ret.image_height
        /\ BlockBottom <= ret.img_y + ret.image_height + legend_height

(***************************************************************************)
(* draw_text_with_outline as a run of its own, one draw.text at a time.    *)
(* call holds the arguments, ret the loop variables and the draws made so  *)
(* far, in order; a draw records its position and which of the two colour  *)
(* arguments it used.                                                      *)
(***************************************************************************)
MaxOutline == 2

TextPositions == {<<0, 0>>, <<160, 801>>, <<3, 7>>, <<7, 3>>}

\* mutation of DrawsOutline: the offsets along the axes are skipped too
DrawsOutline_OffAxis(offset_x, offset_y) == offset_x # 0 /\ offset_y # 0

\* line 101
DrawsOutline(offset_x, offset_y) == offset_x # 0 \/ offset_y # 0

InitOutline ==
    /\ entry = "outline"
    /\ pc = "outline"
    /\ call \in [position : TextPositions, outline_width : 0 .. MaxOutline]
    /\ ret = [offset_x |-> -call.outline_width, offset_y |-> -call.outline_width,
              draws |-> <<>>]
    /\ InitNoGen
    /\ InitNoWrap

\* lines 99-102, one iteration of the inner loop
OutlineStep ==
    /\ entry = "outline" /\ pc = "outline"
    /\ LET x == call.position[1]
           y == call.position[2]
           w == call.outline_width
           drawn == IF DrawsOutline(ret.offset_x, ret.offset_y)
                    THEN Append(ret.draws,
                                [at |-> <<x + ret.offset_x, y + ret.offset_y>>,
                                 fill |-> "outline_color"])
                    ELSE ret.draws
       IN  IF ret.offset_y < w
           THEN /\ ret' = [offset_x |-> ret.offset_x, offset_y |-> ret.offset_y + 1,
                           draws |-> drawn]
                /\ pc' = "outline"
           ELSE IF ret.offset_x < w
           THEN /\ ret' = [offset_x |-> ret.offset_x + 1, offset_y |-> -w,
                           draws |-> drawn]
                /\ pc' = "outline"
           ELSE /\ ret' = [offset_x |-> ret.offset_x, offset_y |-> ret.offset_y,
                           draws |-> drawn]
                /\ pc' = "fill"
    /\ UNCHANGED <<entry, genVars, wrapVars, call>>

\* line 105
FillDraw ==
    /\ entry = "outline" /\ pc = "fill"
    /\ ret' = [ret EXCEPT !.draws =
                  Append(@, [at |-> call.position, fill |-> "fill_color"])]
    /\ pc' = "done"
    /\ UNCHANGED <<entry, genVars, wrapVars, call>>

\* the offsets in the order of the two nested loops of lines 99-100
AllOffsets(w) ==
    [k \in 1 .. (2 * w + 1) * (2 * w + 1) |->
        <<((k - 1) \div (2 * w + 1)) - w, ((k - 1) % (2 * w + 1)) - w>>]

\* the draws of one call of draw_text_with_outline, in order
draw_text_with_outline(position, w) ==
    LET Drawn(o) == DrawsOutline(o[1], o[2])
        offs == SelectSeq(AllOffsets(w), Drawn)
    IN  [k \in 1 .. Len(offs) |->
            [at |-> <<position[1] + offs[k][1], position[2] + offs[k][2]>>,
             fill |-> "outline_color"]]
        \o << [at |-> position, fill |-> "fill_color"] >>

\* lines 172-182: line n (from 0) is drawn by draw_text_with_outline at
\* y + n * (line_height + spacing), line_height being the height of line n
RECURSIVE MultilineFrom(_, _, _, _, _)
MultilineFrom(position, heights, w, spacing, n) ==
    IF n >= Len(heights) THEN <<>>
    ELSE LET line_y == position[2] + n * (heights[n + 1] + spacing)
             ds == draw_text_with_outline(<<position[1], line_y>>, w)
         IN  [k \in 1 .. Len(ds) |->
                 [line |-> n, at |-> ds[k].at, fill |-> ds[k].fill]]
             \o MultilineFrom(position, heights, w, spacing, n + 1)

draw_multiline_text_with_outline(position, heights, w, spacing) ==
    MultilineFrom(position, heights, w, spacing, 0)

InitMultiline ==
    /\ entry = "multiline"
    /\ pc = "start"
    /\ call \in [position : TextPositions, line_heights : HeightLists,
                 outline_width : 0 .. MaxOutline, line_spacing : {line_spacing}]
    /\ ret = <<>>
    /\ InitNoGen
    /\ InitNoWrap

\* lines 157-182: draw_multiline_text_with_outline, which no other function
\* of the repository calls
DrawMultilineText ==
    /\ entry = "multiline" /\ pc = "start"
    /\ ret' = [draws |-> draw_multiline_text_with_outline(
                             call.position, call.line_heights,
                             call.outline_width, call.line_spacing)]
    /\ pc' = "done"
    /\ UNCHANGED <<entry, genVars, wrapVars, call>>

NextOutline == OutlineStep \/ FillDraw \/ DrawMultilineText

SpecOutline == (InitOutline \/ InitMultiline) /\ [][NextOutline]_vars

\* the positions at every offset within w of position, but position itself
OutlinePositions(position, w) ==
    {<<position[1] + dx, position[2] + dy>> : dx \in -w..w, dy \in -w..w}
        \ {position}

\* C22: draw_text_with_outline draws the text in the outline colour at every
\* offset (dx, dy) with dx, dy in -w..w other than (0, 0), each once, which
\* is (2w+1)^2 - 1 draws, and then once in the fill colour at the position
\* itself; the fill draw is the last draw, and no draw is made in the fill
\* colour before the outline is complete.
C22_OutlineThenFill ==
    entry = "outline" =>
        LET w == call.outline_width
            n == (2 * w + 1) * (2 * w + 1) - 1
            draws == ret.draws
        IN  /\ \A k \in DOMAIN draws :
                  draws[k].fill = "fill_color" => (pc = "done" /\ k = Len(draws))
            /\ \A k \in DOMAIN draws :
                  draws[k].fill = "outline_color" =>
                     draws[k].at \in OutlinePositions(call.position, w)
            /\ \A j, k \in DOMAIN draws : j # k => draws[j].at # draws[k].at
            /\ pc = "done" =>
                  /\ Len(draws) = n + 1
                  /\ draws[n + 1] = [at |-> call.position, fill |-> "fill_color"]
                  /\ {draws[k].at : k \in 1..n} = OutlinePositions(call.position, w)

\* the 24 outline draws of width 2 followed by the fill draw
C22_Witness ==
    /\ entry = "outline" /\ pc = "done"
    /\ call.outline_width = 2
    /\ Len(ret.draws) = 25
    /\ ret.draws[1].at = <<call.position[1] - 2, call.position[2] - 2>>
    /\ ret.draws[25].fill = "fill_color"

\* s is the beginning of t
IsPrefix(s, t) == Len(s) <= Len(t) /\ SubSeq(t, 1, Len(s)) = s

\* the pool has been built and the run has not ended
PoolBuilt == pc \in {"validate", "deck", "cards", "cleanup", "finally"}

\* the step leaves the run before or at the assembly of the document
BeforeAssembly == pc \in {"deck", "cards"} /\ pc' \in {"deck", "cards", "cleanup"}

\* C23: once the pool is built no step of a run changes it (length, order
\* and entries), through deck pagination and every card's sampling; up to
\* the assembly the list of page paths only grows at its end, by at most one
\* path per step, and a page file once written stays as it was written.
C23_PoolFrozenPagesAppended ==
    [][ /\ PoolBuilt => all_images' = all_images
        /\ pc \in {"deck", "cards"} =>
              /\ IsPrefix(all_page_paths, all_page_paths')
              /\ Len(all_page_paths') <= Len(all_page_paths) + 1
        /\ BeforeAssembly =>
              \A p \in DOMAIN pages_temp_dir :
                  /\ p \in DOMAIN pages_temp_dir'
                  /\ pages_temp_dir'[p] = pages_temp_dir[p]
      ]_vars

\* a run over a pool larger than a card that has written two deck pages and
\* two cards
C23_Witness ==
    /\ entry = "core" /\ pc = "cards"
    /\ Len(all_images) > IMAGES_PER_CARD
    /\ Len(SelectSeq(all_page_paths, IsDeckPath)) >= 2
    /\ Len(cards) = 2
    /\ Basename(all_page_paths[Len(all_page_paths)]) = <<"tabla", 2>>
    /\ DOMAIN pages_temp_dir = Range(all_page_paths)

\* C24: the temporary copies that load_images_from_uploads wrote are exactly
\* the files the pool names, they stay until the finally block, and none is
\* left when generate_loteria_pdf ends: after a successful return, after the
\* insufficient-images error, and after a failure of a save or of the
\* conversion.
C24_UploadsRemoved ==
    entry = "core" =>
        /\ pc \in {"validate", "deck", "cards", "cleanup", "finally"} =>
              DOMAIN disk = Range(all_images)
        /\ pc = "done" => disk = EmptyFn

\* a run that wrote its uploads, rendered a page and then failed in a save
C24_Witness ==
    /\ entry = "core" /\ pc = "done"
    /\ error_at = "save"
    /\ Len(all_images) >= IMAGES_PER_CARD
    /\ pages_temp_dir # EmptyFn
    /\ disk = EmptyFn

====
